---- MODULE Spec2Model ----
(***************************************************************************)
(* A model of the fixer client (package fixer): client construction by     *)
(* functional options, the Base / Symbols parameter builders, the query     *)
(* merge, request composition against the base URL, the transport / status  *)
(* classification / JSON decode pipeline and the link annotation.           *)
(*                                                                          *)
(* Go strings are modelled as sequences of one-character strings over       *)
(* printable ASCII, so that parsing, escaping and sorting are computed and  *)
(* not assumed.                                                             *)
(***************************************************************************)
EXTENDS Integers, Sequences, FiniteSets, TLC

VARIABLES options, client, constructed, calls

vars == <<options, client, constructed, calls>>

(***************************************************************************)
(* Strings: bytes of printable ASCII, in code order (32 .. 126).  The      *)
(* double quote, the backslash and the backtick are written as names.      *)
(***************************************************************************)
Ascii ==
  << " ", "!", "DQUOTE", "#", "$", "%", "&", "'", "(", ")", "*", "+", ",", "-",
     ".", "/", "0", "1", "2", "3", "4", "5", "6", "7", "8", "9", ":", ";",
     "<", "=", ">", "?", "@", "A", "B", "C", "D", "E", "F", "G", "H", "I",
     "J", "K", "L", "M", "N", "O", "P", "Q", "R", "S", "T", "U", "V", "W",
     "X", "Y", "Z", "[", "BACKSLASH", "]", "^", "_", "BACKTICK", "a", "b", "c", "d", "e",
     "f", "g", "h", "i", "j", "k", "l", "m", "n", "o", "p", "q", "r", "s",
     "t", "u", "v", "w", "x", "y", "z", "{", "|", "}", "~" >>

OrdTable ==
  [c \in { Ascii[i] : i \in 1..Len(Ascii) } |-> 31 + (CHOOSE i \in 1..Len(Ascii) : Ascii[i] = c)]

\* The byte value of a character.
Ord(c) == OrdTable[c]

\* The character of a byte value; bytes outside printable ASCII are not
\* produced by any input of this model and collapse to the tilde.
Chr(n) == IF n >= 32 /\ n <= 126 THEN Ascii[n - 31] ELSE "~"

IsLetter(c) == (Ord(c) >= 97 /\ Ord(c) <= 122) \/ (Ord(c) >= 65 /\ Ord(c) <= 90)
IsDigit(c) == Ord(c) >= 48 /\ Ord(c) <= 57

\* strings.ToLower
ToLower(s) == [i \in 1..Len(s) |-> IF Ord(s[i]) >= 65 /\ Ord(s[i]) <= 90 THEN Chr(Ord(s[i]) + 32) ELSE s[i]]

\* strings.IndexByte, 1-based; 0 when absent.
IndexOf(s, c) ==
  IF \E i \in 1..Len(s) : s[i] = c
    THEN CHOOSE i \in 1..Len(s) : s[i] = c /\ \A j \in 1..(i - 1) : s[j] # c
    ELSE 0

\* strings.LastIndexByte, 1-based; 0 when absent.
LastIndexOf(s, c) ==
  IF \E i \in 1..Len(s) : s[i] = c
    THEN CHOOSE i \in 1..Len(s) : s[i] = c /\ \A j \in (i + 1)..Len(s) : s[j] # c
    ELSE 0

Contains(s, c) == \E i \in 1..Len(s) : s[i] = c

HasPrefix(s, p) == Len(s) >= Len(p) /\ SubSeq(s, 1, Len(p)) = p

\* s[i:] with a 1-based start.
From(s, i) == SubSeq(s, i, Len(s))

\* strings.Cut(s, c).before and .after
CutBefore(s, c) == IF Contains(s, c) THEN SubSeq(s, 1, IndexOf(s, c) - 1) ELSE s
CutAfter(s, c) == IF Contains(s, c) THEN From(s, IndexOf(s, c) + 1) ELSE <<>>

\* Byte-wise lexicographic order, the order of Go strings under <.
RECURSIVE StrLess(_, _)
StrLess(a, b) ==
  IF b = <<>> THEN FALSE
  ELSE IF a = <<>> THEN TRUE
  ELSE IF Ord(a[1]) < Ord(b[1]) THEN TRUE
  ELSE IF Ord(a[1]) > Ord(b[1]) THEN FALSE
  ELSE StrLess(Tail(a), Tail(b))

StrLeq(a, b) == a = b \/ StrLess(a, b)

\* strings.Join(list, sep)
RECURSIVE Join(_, _)
Join(list, sep) ==
  IF list = <<>> THEN <<>>
  ELSE IF Len(list) = 1 THEN list[1]
  ELSE list[1] \o sep \o Join(Tail(list), sep)

\* strings.Split(s, c) for a one-byte separator.
RECURSIVE Split(_, _)
Split(s, c) ==
  IF ~Contains(s, c) THEN <<s>>
  ELSE <<CutBefore(s, c)>> \o Split(CutAfter(s, c), c)

(***************************************************************************)
(* net/url as the client uses it.  The inputs of this model hold no         *)
(* control byte, no fragment mark, no userinfo mark and no bracketed host,  *)
(* so those branches of the parser are left out.                            *)
(***************************************************************************)
HexDigits == <<"0", "1", "2", "3", "4", "5", "6", "7", "8", "9", "A", "B", "C", "D", "E", "F">>

IsHex(c) == IsDigit(c) \/ (Ord(c) >= 97 /\ Ord(c) <= 102) \/ (Ord(c) >= 65 /\ Ord(c) <= 70)

Unhex(c) ==
  IF IsDigit(c) THEN Ord(c) - 48
  ELSE IF Ord(c) >= 97 /\ Ord(c) <= 102 THEN Ord(c) - 97 + 10
  ELSE Ord(c) - 65 + 10

\* url.shouldEscape for the modes the client reaches: path, host, query
\* (a query component).
ShouldEscape(c, mode) ==
  IF IsLetter(c) \/ IsDigit(c) THEN FALSE
  ELSE IF mode = "host" /\ c \in {"!", "$", "&", "'", "(", ")", "*", "+", ",", ";", "=", ":", "[", "]", "<", ">", "DQUOTE"}
    THEN FALSE
  ELSE IF c \in {"-", "_", ".", "~"} THEN FALSE
  ELSE IF c \in {"$", "&", "+", ",", "/", ":", ";", "=", "?", "@"} /\ mode = "path" THEN c = "?"
  ELSE TRUE

\* url.escape
RECURSIVE Escape(_, _)
Escape(s, mode) ==
  IF s = <<>> THEN <<>>
  ELSE (IF ShouldEscape(s[1], mode)
          THEN (IF s[1] = " " /\ mode = "query"
                  THEN <<"+">>
                  ELSE <<"%", HexDigits[(Ord(s[1]) \div 16) + 1], HexDigits[(Ord(s[1]) % 16) + 1]>>)
          ELSE <<s[1]>>)
       \o Escape(Tail(s), mode)

\* url.unescape: whether it reports no error ...
RECURSIVE UnescapeOK(_, _)
UnescapeOK(s, mode) ==
  IF s = <<>> THEN TRUE
  ELSE IF s[1] = "%"
    THEN /\ Len(s) >= 3
         /\ IsHex(s[2])
         /\ IsHex(s[3])
         /\ ~(mode = "host" /\ Unhex(s[2]) < 8 /\ SubSeq(s, 1, 3) # <<"%", "2", "5">>)
         /\ UnescapeOK(From(s, 4), mode)
  ELSE IF s[1] = "+" THEN UnescapeOK(Tail(s), mode)
  ELSE IF mode = "host" /\ ShouldEscape(s[1], "host") THEN FALSE
  ELSE UnescapeOK(Tail(s), mode)

\* ... and the string it then returns.
RECURSIVE Unescape(_, _)
Unescape(s, mode) ==
  IF s = <<>> THEN <<>>
  ELSE IF s[1] = "%" /\ Len(s) >= 3
    THEN <<Chr(16 * Unhex(s[2]) + Unhex(s[3]))>> \o Unescape(From(s, 4), mode)
  ELSE IF s[1] = "+" /\ mode = "query" THEN <<" ">> \o Unescape(Tail(s), mode)
  ELSE <<s[1]>> \o Unescape(Tail(s), mode)

\* url.validEncoded
ValidEncoded(s, mode) ==
  \A i \in 1..Len(s) :
    \/ s[i] \in {"!", "$", "&", "'", "(", ")", "*", "+", ",", ";", "=", ":", "@", "[", "]", "%"}
    \/ ~ShouldEscape(s[i], mode)

\* The zero url.URL.
EmptyURL ==
  [Scheme |-> <<>>, Opaque |-> <<>>, Host |-> <<>>, Path |-> <<>>, RawPath |-> <<>>,
   OmitHost |-> FALSE, ForceQuery |-> FALSE, RawQuery |-> <<>>]

\* The result of a parse: err is the empty string for a nil error.
ParseFail(msg) == [err |-> msg, url |-> EmptyURL]
ParseDone(u) == [err |-> "", url |-> u]

\* url.getScheme, scanning from byte i.
RECURSIVE GetSchemeAt(_, _)
GetSchemeAt(raw, i) ==
  IF i > Len(raw) THEN [err |-> "", scheme |-> <<>>, rest |-> raw]
  ELSE IF IsLetter(raw[i]) THEN GetSchemeAt(raw, i + 1)
  ELSE IF IsDigit(raw[i]) \/ raw[i] \in {"+", "-", "."}
    THEN (IF i = 1 THEN [err |-> "", scheme |-> <<>>, rest |-> raw] ELSE GetSchemeAt(raw, i + 1))
  ELSE IF raw[i] = ":"
    THEN (IF i = 1
            THEN [err |-> "missing protocol scheme", scheme |-> <<>>, rest |-> <<>>]
            ELSE [err |-> "", scheme |-> SubSeq(raw, 1, i - 1), rest |-> From(raw, i + 1)])
  ELSE [err |-> "", scheme |-> <<>>, rest |-> raw]

GetScheme(raw) == GetSchemeAt(raw, 1)

\* url.validOptionalPort
ValidOptionalPort(port) ==
  \/ port = <<>>
  \/ /\ port[1] = ":"
     /\ \A i \in 2..Len(port) : IsDigit(port[i])

\* url.parseHost (through url.parseAuthority, no userinfo), given the place
\* of the last colon of the host.
ParseHostAt(host, colon) ==
  IF colon # 0 /\ ~ValidOptionalPort(From(host, colon))
    THEN [err |-> "invalid port after host", host |-> <<>>]
  ELSE IF ~UnescapeOK(host, "host") THEN [err |-> "invalid URL escape or host", host |-> <<>>]
  ELSE [err |-> "", host |-> Unescape(host, "host")]

ParseHost(host) == ParseHostAt(host, LastIndexOf(host, ":"))

\* URL.setPath: Path is the decoded path, RawPath is kept only when the
\* default encoding of Path differs from the text given.
SetPathTo(u, p, path) ==
  [u EXCEPT !.Path = path, !.RawPath = IF Escape(path, "path") = p THEN <<>> ELSE p]

SetPath(u, p) == SetPathTo(u, p, Unescape(p, "path"))

\* url.parse, last step: the path.
ParsePath(u, rest) ==
  IF ~UnescapeOK(rest, "path") THEN ParseFail("invalid URL escape") ELSE ParseDone(SetPath(u, rest))

\* url.parse: the authority has been parsed.
ParseWithHost(u, host, rest) ==
  IF host.err # "" THEN ParseFail(host.err) ELSE ParsePath([u EXCEPT !.Host = host.host], rest)

\* url.parse: the text after the two slashes is cut at its first slash
\* into the authority and the path.
ParseAuthority(u, afterSl, slash) ==
  ParseWithHost(u,
                ParseHost(IF slash > 0 THEN SubSeq(afterSl, 1, slash - 1) ELSE afterSl),
                IF slash > 0 THEN From(afterSl, slash) ELSE <<>>)

\* url.parse: scheme and query are split off, rest is what is left.
ParseHier(u, rest) ==
  IF ~HasPrefix(rest, <<"/">>) /\ u.Scheme # <<>> THEN ParseDone([u EXCEPT !.Opaque = rest])
  ELSE IF ~HasPrefix(rest, <<"/">>) /\ Contains(CutBefore(rest, "/"), ":")
    THEN ParseFail("first path segment in URL cannot contain colon")
  ELSE IF HasPrefix(rest, <<"/", "/">>) /\ (u.Scheme # <<>> \/ ~HasPrefix(rest, <<"/", "/", "/">>))
    THEN ParseAuthority(u, From(rest, 3), IndexOf(From(rest, 3), "/"))
  ELSE ParsePath([u EXCEPT !.OmitHost = u.Scheme # <<>> /\ HasPrefix(rest, <<"/">>)], rest)

\* url.parse: a lone trailing question mark forces an empty query,
\* otherwise the query is what follows the first question mark.
ParseQuerySplit(scheme, rest, force) ==
  ParseHier([EmptyURL EXCEPT !.Scheme = scheme,
                             !.ForceQuery = force,
                             !.RawQuery = IF force THEN <<>> ELSE CutAfter(rest, "?")],
            IF force THEN SubSeq(rest, 1, Len(rest) - 1) ELSE CutBefore(rest, "?"))

ParseAfterScheme(sch) ==
  IF sch.err # "" THEN ParseFail(sch.err)
  ELSE ParseQuerySplit(ToLower(sch.scheme), sch.rest,
                       Len(sch.rest) > 0 /\ sch.rest[Len(sch.rest)] = "?" /\ Cardinality({ i \in 1..Len(sch.rest) : sch.rest[i] = "?" }) = 1)

\* url.Parse
ParseURL(raw) ==
  IF raw = <<"*">> THEN ParseDone([EmptyURL EXCEPT !.Path = <<"*">>])
  ELSE ParseAfterScheme(GetScheme(raw))

\* URL.EscapedPath
EscapedPath(u) ==
  IF u.RawPath # <<>> /\ ValidEncoded(u.RawPath, "path") /\ UnescapeOK(u.RawPath, "path")
     /\ Unescape(u.RawPath, "path") = u.Path
    THEN u.RawPath
  ELSE IF u.Path = <<"*">> THEN <<"*">>
  ELSE Escape(u.Path, "path")

\* URL.String, after the scheme, the authority and the escaped path have
\* been worked out.
URLStringOf(u, scheme, authority, path) ==
  scheme
    \o (IF u.Opaque # <<>> THEN u.Opaque
        ELSE authority
               \o (IF path # <<>> /\ path[1] # "/" /\ u.Host # <<>> THEN <<"/">> ELSE <<>>)
               \o (IF scheme = <<>> /\ authority = <<>> /\ Contains(CutBefore(path, "/"), ":")
                     THEN <<".", "/">> ELSE <<>>)
               \o path)
    \o (IF u.ForceQuery \/ u.RawQuery # <<>> THEN <<"?">> \o u.RawQuery ELSE <<>>)

\* URL.String
URLString(u) ==
  URLStringOf(u,
              IF u.Scheme # <<>> THEN u.Scheme \o <<":">> ELSE <<>>,
              IF (u.Scheme # <<>> \/ u.Host # <<>>) /\ ~(u.OmitHost /\ u.Host = <<>>)
                THEN (IF u.Host # <<>> \/ u.Path # <<>> THEN <<"/", "/">> ELSE <<>>)
                     \o Escape(u.Host, "host")
                ELSE <<>>,
              EscapedPath(u))

\* The loop of url.resolvePath over the segments of the joined path: dst is
\* the text written so far (after its leading slash), first says whether
\* the next segment is written without a separating slash.
RECURSIVE ResolveSegments(_, _, _)
ResolveSegments(segs, dst, first) ==
  IF segs = <<>> THEN dst
  ELSE IF segs[1] = <<".">> THEN ResolveSegments(Tail(segs), dst, FALSE)
  ELSE IF segs[1] = <<".", ".">>
    THEN (IF LastIndexOf(dst, "/") = 0
            THEN ResolveSegments(Tail(segs), <<>>, TRUE)
            ELSE ResolveSegments(Tail(segs), SubSeq(dst, 1, LastIndexOf(dst, "/") - 1), first))
  ELSE ResolveSegments(Tail(segs), dst \o (IF first THEN <<>> ELSE <<"/">>) \o segs[1], FALSE)

\* url.resolvePath, after the loop: a final dot segment leaves a trailing
\* slash, and a doubled leading slash is cut to one.
ResolveTrim(r) == IF Len(r) > 1 /\ r[2] = "/" THEN Tail(r) ELSE r

ResolveJoined(segs) ==
  ResolveTrim(<<"/">> \o ResolveSegments(segs, <<>>, TRUE)
                \o (IF segs[Len(segs)] = <<".">> \/ segs[Len(segs)] = <<".", ".">> THEN <<"/">> ELSE <<>>))

ResolveFull(full) == IF full = <<>> THEN <<>> ELSE ResolveJoined(Split(full, "/"))

\* url.resolvePath
ResolvePath(base, ref) ==
  ResolveFull(IF ref = <<>> THEN base
              ELSE IF ref[1] # "/" THEN SubSeq(base, 1, LastIndexOf(base, "/")) \o ref
              ELSE ref)

\* URL.ResolveReference
ResolveReference(u, ref) ==
  IF ref.Scheme # <<>> \/ ref.Host # <<>>
    THEN SetPath([ref EXCEPT !.Scheme = IF @ = <<>> THEN u.Scheme ELSE @],
                 ResolvePath(EscapedPath(ref), <<>>))
  ELSE IF ref.Opaque # <<>>
    THEN [ref EXCEPT !.Scheme = u.Scheme, !.Host = <<>>, !.Path = <<>>, !.RawPath = <<>>]
  ELSE IF ref.Path = <<>> /\ u.Opaque # <<>>
    THEN [ref EXCEPT !.Scheme = u.Scheme,
                     !.RawQuery = IF ~ref.ForceQuery /\ ref.RawQuery = <<>> THEN u.RawQuery ELSE @,
                     !.Opaque = u.Opaque, !.Host = <<>>, !.Path = <<>>, !.RawPath = <<>>]
  ELSE SetPath([ref EXCEPT !.Scheme = u.Scheme,
                           !.RawQuery = IF ref.Path = <<>> /\ ~ref.ForceQuery /\ ref.RawQuery = <<>>
                                          THEN u.RawQuery ELSE @,
                           !.Host = u.Host],
               ResolvePath(EscapedPath(u), EscapedPath(ref)))

(***************************************************************************)
(* url.Values: a map from a key to the list of its values.                  *)
(***************************************************************************)
EmptyValues == [k \in {} |-> <<>>]

\* Values.Get: the first value of the key, the empty string when it has none.
ValuesGet(v, k) == IF k \in DOMAIN v /\ Len(v[k]) > 0 THEN v[k][1] ELSE <<>>

\* Values.Set: the key now has exactly this one value.
ValuesSet(v, k, val) == [x \in (DOMAIN v) \cup {k} |-> IF x = k THEN <<val>> ELSE v[x]]

\* The keys of a set of strings in ascending order (sort.Strings).
RECURSIVE SortedKeys(_)
SortedKeys(S) ==
  IF S = {} THEN <<>>
  ELSE LET m == CHOOSE x \in S : \A y \in S : StrLeq(x, y)
       IN <<m>> \o SortedKeys(S \ {m})

\* key=value for every value of one key, in order.
RECURSIVE EncodeKey(_, _)
EncodeKey(k, vs) ==
  IF vs = <<>> THEN <<>>
  ELSE <<Escape(k, "query") \o <<"=">> \o Escape(vs[1], "query")>> \o EncodeKey(k, Tail(vs))

RECURSIVE EncodeKeys(_, _)
EncodeKeys(v, keys) ==
  IF keys = <<>> THEN <<>>
  ELSE EncodeKey(keys[1], v[keys[1]]) \o EncodeKeys(v, Tail(keys))

\* Values.Encode: sorted by key, every key and value query-escaped.
Encode(v) == Join(EncodeKeys(v, SortedKeys(DOMAIN v)), <<"&">>)

\* url.ParseQuery over the pairs of a raw query, as the receiving server
\* reads it: a pair adds its unescaped value to the list of its unescaped key.
RECURSIVE ParsePairs(_, _)
ParsePairs(pairs, v) ==
  IF pairs = <<>> THEN v
  ELSE IF pairs[1] = <<>> THEN ParsePairs(Tail(pairs), v)
  ELSE LET k == Unescape(CutBefore(pairs[1], "="), "query")
           val == Unescape(CutAfter(pairs[1], "="), "query")
       IN ParsePairs(Tail(pairs),
                     [x \in (DOMAIN v) \cup {k} |->
                        IF x = k THEN (IF k \in DOMAIN v THEN v[k] ELSE <<>>) \o <<val>> ELSE v[x]])

ParseQuery(raw) == ParsePairs(Split(raw, "&"), EmptyValues)

(***************************************************************************)
(* time.Time: an instant as the day number since 1970-01-01 and the second  *)
(* of that day, both in UTC, with the offset of its zone in seconds east.   *)
(***************************************************************************)
\* The day number of a civil date of the proleptic Gregorian calendar.
DaysFromCivil(y, m, d) ==
  LET yy == IF m <= 2 THEN y - 1 ELSE y
      era == yy \div 400
      yoe == yy - era * 400
      doy == (153 * (IF m > 2 THEN m - 3 ELSE m + 9) + 2) \div 5 + d - 1
      doe == yoe * 365 + yoe \div 4 - yoe \div 100 + doy
  IN era * 146097 + doe - 719468

\* The civil date of a day number.
CivilFromDays(z0) ==
  LET z == z0 + 719468
      era == z \div 146097
      doe == z - era * 146097
      yoe == (doe - doe \div 1460 + doe \div 36524 - doe \div 146096) \div 365
      doy == doe - (365 * yoe + yoe \div 4 - yoe \div 100)
      mp == (5 * doy + 2) \div 153
      d == doy - (153 * mp + 2) \div 5 + 1
      m == IF mp < 10 THEN mp + 3 ELSE mp - 9
  IN [y |-> (yoe + era * 400) + (IF m <= 2 THEN 1 ELSE 0), m |-> m, d |-> d]

\* time.Date(y, m, d, h, 0, 0, 0, loc) for a zone at a fixed offset: the
\* wall clock reading in that zone, stored as the instant.
Date(y, m, d, h, off) ==
  [day |-> DaysFromCivil(y, m, d) + ((h * 3600 - off) \div 86400),
   sec |-> (h * 3600 - off) % 86400,
   off |-> off]

\* The zero time.Time: January 1, year 1, 00:00:00 UTC.
ZeroTime == [day |-> DaysFromCivil(1, 1, 1), sec |-> 0, off |-> 0]

\* n in decimal, zero-padded to w digits.
RECURSIVE Digits(_, _)
Digits(n, w) == IF w = 0 THEN <<>> ELSE Digits(n \div 10, w - 1) \o <<Chr(48 + (n % 10))>>

\* Time.Format with the layout 2006-01-02: the calendar date the instant has
\* on the wall clock of the zone the value carries.
FormatDate(t) ==
  LET c == CivilFromDays(t.day + ((t.sec + t.off) \div 86400))
  IN Digits(c.y, 4) \o <<"-">> \o Digits(c.m, 2) \o <<"-">> \o Digits(c.d, 2)

\* The days of a month of a year.
DaysIn(m, y) ==
  IF m = 2 THEN (IF y % 4 = 0 /\ (y % 100 # 0 \/ y % 400 = 0) THEN 29 ELSE 28)
  ELSE IF m \in {4, 6, 9, 11} THEN 30
  ELSE 31

\* The number a string of decimal digits denotes.
RECURSIVE Atoi(_)
Atoi(s) == IF s = <<>> THEN 0 ELSE 10 * Atoi(SubSeq(s, 1, Len(s) - 1)) + (Ord(s[Len(s)]) - 48)

\* time.ParseInLocation with the layout 2006-01-02 and time.UTC: four digits,
\* a dash, two digits, a dash, two digits and nothing more, naming a day
\* that exists.
ParseDateOK(s) ==
  /\ Len(s) = 10
  /\ \A i \in {1, 2, 3, 4, 6, 7, 9, 10} : IsDigit(s[i])
  /\ s[5] = "-"
  /\ s[8] = "-"
  /\ Atoi(SubSeq(s, 6, 7)) \in 1..12
  /\ Atoi(SubSeq(s, 9, 10)) \in 1..DaysIn(Atoi(SubSeq(s, 6, 7)), Atoi(SubSeq(s, 1, 4)))

ParseDate(s) == Date(Atoi(SubSeq(s, 1, 4)), Atoi(SubSeq(s, 6, 7)), Atoi(SubSeq(s, 9, 10)), 0, 0)

(***************************************************************************)
(* Errors.  A nil error has kind nil; a sentinel of package fixer is        *)
(* compared by identity, which id carries.                                   *)
(***************************************************************************)
NilError == [kind |-> "nil", id |-> "", msg |-> ""]

\* NewError
NewError(id, msg) == [kind |-> "fixer.Error", id |-> id, msg |-> msg]

ErrNilResponse == NewError("ErrNilResponse", "Unexpected nil response")
ErrUnexpectedStatus == NewError("ErrUnexpectedStatus", "Unexpected status")
ErrNotFound == NewError("ErrNotFound", "Not Found")
ErrUnprocessableEntity == NewError("ErrUnprocessableEntity", "Unprocessable Entity")

Sentinels == {ErrNilResponse, ErrUnexpectedStatus, ErrNotFound, ErrUnprocessableEntity}

\* The *url.Error of a failed url.Parse.
URLError(msg) == [kind |-> "url.Error", id |-> "parse", msg |-> msg]

\* The error of a failed client.Do: what the transport reported.
TransportError(id) == [kind |-> "transport", id |-> id, msg |-> id]

\* The error of a failed json Decode.
DecodeError(id) == [kind |-> "decode", id |-> id, msg |-> id]

(***************************************************************************)
(* An *http.Response: nil, or a status code and a body.                     *)
(***************************************************************************)
\* A JSON value of a body field: absent, a string, a boolean, a number or
\* an object of strings.
JAbsent == [t |-> "absent", s |-> <<>>, m |-> EmptyValues]
JString(s) == [t |-> "string", s |-> s, m |-> EmptyValues]
JBool == [t |-> "bool", s |-> <<>>, m |-> EmptyValues]
JNumber == [t |-> "number", s |-> <<>>, m |-> EmptyValues]
JObject(m) == [t |-> "object", s |-> <<>>, m |-> m]

\* A body: bytes that are no JSON text, no bytes at all, the JSON texts
\* null and [], or a JSON object with the fields of a Response.
TextBody == [kind |-> "text", base |-> JAbsent, date |-> JAbsent, rates |-> JAbsent, links |-> JAbsent]
EmptyBody == [TextBody EXCEPT !.kind = "empty"]
NullBody == [TextBody EXCEPT !.kind = "null"]
ArrayBody == [TextBody EXCEPT !.kind = "array"]
ObjectBody(base, date, rates, links) ==
  [kind |-> "object", base |-> base, date |-> date, rates |-> rates, links |-> links]

NilResp == [nil |-> TRUE, StatusCode |-> 0, Body |-> EmptyBody]
Resp(status, body) == [nil |-> FALSE, StatusCode |-> status, Body |-> body]

StatusOK == 200
StatusNotFound == 404
StatusUnprocessableEntity == 422

\* responseError without the case for 404, which falls to the last return.
responseErrorNotFoundUnexpected(resp) ==
  IF resp.nil THEN ErrNilResponse
  ELSE IF resp.StatusCode = StatusOK THEN NilError
  ELSE IF resp.StatusCode = StatusUnprocessableEntity THEN ErrUnprocessableEntity
  ELSE ErrUnexpectedStatus

\* responseError
responseError(resp) ==
  IF resp.nil THEN ErrNilResponse
  ELSE IF resp.StatusCode = StatusOK THEN NilError
  ELSE IF resp.StatusCode = StatusNotFound THEN ErrNotFound
  ELSE IF resp.StatusCode = StatusUnprocessableEntity THEN ErrUnprocessableEntity
  ELSE ErrUnexpectedStatus

(***************************************************************************)
(* Response and its decoding.                                                *)
(***************************************************************************)
NoLinks == [k \in {} |-> <<>>]

\* The zero Response.
ZeroResponse == [Base |-> <<>>, Date |-> ZeroTime, Rates |-> EmptyValues, Links |-> NoLinks]

\* A *Response: nil, or a pointer to a Response.
NilResponse == [nil |-> TRUE, val |-> ZeroResponse]
ResponsePtr(r) == [nil |-> FALSE, val |-> r]

\* Date.UnmarshalJSON: the error of decoding one JSON value into a Date
\* (the empty string for none); json.Unmarshal leaves the string empty for
\* the JSON value null and reports no error, and the empty string is then
\* no date ...
DateUnmarshalError(j) ==
  IF j.t \notin {"string", "null"} THEN "json: cannot unmarshal into Go value of type string"
  ELSE IF ~ParseDateOK(j.s) THEN "parsing time: cannot parse"
  ELSE ""

\* A Date.UnmarshalJSON that assigns what time.ParseInLocation returned
\* before it looks at the error.
DateUnmarshalJSONAssignsFirst(d, j) ==
  IF j.t \notin {"string", "null"} THEN d
  ELSE IF ParseDateOK(j.s) THEN ParseDate(j.s) ELSE ZeroTime

\* ... and the Date after it: the parsed day at 00:00:00 UTC, or the value
\* it had before when an error is reported.
DateUnmarshalJSON(d, j) == IF DateUnmarshalError(j) = "" THEN ParseDate(j.s) ELSE d

\* json.Decoder.Decode into a zero Response: the error ...
DecodeErr(body) ==
  IF body.kind = "empty" THEN DecodeError("EOF")
  ELSE IF body.kind = "text" THEN DecodeError("invalid character looking for beginning of value")
  ELSE IF body.kind = "null" THEN NilError
  ELSE IF body.kind = "array" THEN DecodeError("json: cannot unmarshal array into Go value of type fixer.Response")
  ELSE IF body.date.t # "absent" /\ DateUnmarshalError(body.date) # ""
    THEN DecodeError(DateUnmarshalError(body.date))
  ELSE IF body.base.t \notin {"absent", "string"}
    THEN DecodeError("json: cannot unmarshal into Go struct field Response.base")
  ELSE IF body.rates.t \notin {"absent", "object"}
    THEN DecodeError("json: cannot unmarshal into Go struct field Response.rates")
  ELSE IF body.links.t \notin {"absent", "object"}
    THEN DecodeError("json: cannot unmarshal into Go struct field Response.links")
  ELSE NilError

\* ... and the Response it fills in when there is none.
DecodeValue(body) ==
  IF body.kind # "object" THEN ZeroResponse
  ELSE [Base |-> IF body.base.t = "string" THEN body.base.s ELSE <<>>,
        Date |-> IF body.date.t = "absent" THEN ZeroTime ELSE DateUnmarshalJSON(ZeroTime, body.date),
        Rates |-> IF body.rates.t = "object" THEN body.rates.m ELSE EmptyValues,
        Links |-> IF body.links.t = "object" THEN body.links.m ELSE NoLinks]

(***************************************************************************)
(* Client and its options.                                                   *)
(***************************************************************************)
\* Seconds of the default http.Client timeout.
DefaultTimeout == 20

\* An *http.Client: which one it is, and its Timeout in seconds.
HTTPClientValue(id, timeout) == [id |-> id, Timeout |-> timeout]

NilHTTPClient == HTTPClientValue("nil", 0)

\* The zero Client, before NewClient has run.
ZeroClient ==
  [httpClient |-> NilHTTPClient, baseURL |-> EmptyURL, accessKey |-> <<>>, userAgent |-> ""]

\* The struct literal NewClient starts from.
DefaultClientValue ==
  [httpClient |-> HTTPClientValue("default", DefaultTimeout),
   baseURL |-> [EmptyURL EXCEPT !.Scheme = <<"h", "t", "t", "p">>, !.Host = <<"d", "a", "t", "a", ".", "f", "i", "x", "e", "r", ".", "i", "o">>, !.Path = <<"/", "a", "p", "i">>],
   accessKey |-> <<>>,
   userAgent |-> "fixer/client.go (https://github.com/peterhellberg/fixer)"]

\* The options, as values: which option, and its argument.
HTTPClient(hc) == [opt |-> "HTTPClient", hc |-> hc, str |-> <<>>, ua |-> ""]
BaseURL(rawurl) == [opt |-> "BaseURL", hc |-> NilHTTPClient, str |-> rawurl, ua |-> ""]
AccessKey(ak) == [opt |-> "AccessKey", hc |-> NilHTTPClient, str |-> ak, ua |-> ""]
UserAgent(ua) == [opt |-> "UserAgent", hc |-> NilHTTPClient, str |-> <<>>, ua |-> ua]

\* A BaseURL that takes a URL only when it names a scheme and a host.
SetBaseURLValidated(c, parsed) ==
  IF parsed.err = "" /\ parsed.url.Scheme # <<>> /\ parsed.url.Host # <<>>
    THEN [c EXCEPT !.baseURL = parsed.url]
    ELSE c

\* A BaseURL function that stores the result of the parse whatever it is.
SetBaseURLUnchecked(c, parsed) == [c EXCEPT !.baseURL = parsed.url]

\* The function BaseURL returns, given the result of url.Parse(rawurl).
SetBaseURL(c, parsed) == IF parsed.err = "" THEN [c EXCEPT !.baseURL = parsed.url] ELSE c

\* The function an option returns, applied to the client.
ApplyOption(o, c) ==
  IF o.opt = "HTTPClient" THEN [c EXCEPT !.httpClient = o.hc]
  ELSE IF o.opt = "BaseURL" THEN SetBaseURL(c, ParseURL(o.str))
  ELSE IF o.opt = "AccessKey" THEN [c EXCEPT !.accessKey = o.str]
  ELSE [c EXCEPT !.userAgent = o.ua]

RECURSIVE ApplyOptions(_, _)
ApplyOptions(opts, c) ==
  IF opts = <<>> THEN c ELSE ApplyOptions(Tail(opts), ApplyOption(opts[1], c))

\* NewClient
NewClient(opts) == ApplyOptions(opts, DefaultClientValue)

(***************************************************************************)
(* The parameter builders and the query merge.                               *)
(***************************************************************************)
KeyBase == <<"b", "a", "s", "e">>
KeySymbols == <<"s", "y", "m", "b", "o", "l", "s">>
KeyAccessKey == <<"a", "c", "c", "e", "s", "s", "_", "k", "e", "y">>

\* A Base that sets the key whatever the currency is.
BaseAlways(c) == ValuesSet(EmptyValues, KeyBase, c)

\* Base
Base(c) == IF c # <<>> THEN ValuesSet(EmptyValues, KeyBase, c) ELSE EmptyValues

\* sort.Strings, by insertion.
RECURSIVE InsertSorted(_, _)
InsertSorted(list, s) ==
  IF list = <<>> THEN <<s>>
  ELSE IF StrLess(s, list[1]) THEN <<s>> \o list
  ELSE <<list[1]>> \o InsertSorted(Tail(list), s)

RECURSIVE SortStrings(_)
SortStrings(list) ==
  IF list = <<>> THEN <<>> ELSE InsertSorted(SortStrings(Tail(list)), list[1])

\* A Currencies.String that joins the codes in the order given.
CurrenciesStringUnsorted(cs) == Join(cs, <<",">>)

\* Currencies.String
CurrenciesString(cs) == Join(SortStrings(cs), <<",">>)

\* Symbols
Symbols(cs) ==
  IF CurrenciesString(cs) # <<>> THEN ValuesSet(EmptyValues, KeySymbols, CurrenciesString(cs)) ELSE EmptyValues

\* A merge in which the first set to name a key wins.
RECURSIVE queryFirstWins(_, _)
queryFirstWins(attributes, v) ==
  IF attributes = <<>> THEN v
  ELSE LET a == attributes[1]
           v1 == IF ValuesGet(a, KeyBase) # <<>> /\ KeyBase \notin DOMAIN v THEN ValuesSet(v, KeyBase, ValuesGet(a, KeyBase)) ELSE v
           v2 == IF ValuesGet(a, KeySymbols) # <<>> /\ KeySymbols \notin DOMAIN v1
                   THEN ValuesSet(v1, KeySymbols, ValuesGet(a, KeySymbols)) ELSE v1
       IN queryFirstWins(Tail(attributes), v2)

\* The loop of Client.query over the sets still to scan.
RECURSIVE queryLoop(_, _)
queryLoop(attributes, v) ==
  IF attributes = <<>> THEN v
  ELSE LET a == attributes[1]
           v1 == IF ValuesGet(a, KeyBase) # <<>> THEN ValuesSet(v, KeyBase, ValuesGet(a, KeyBase)) ELSE v
           v2 == IF ValuesGet(a, KeySymbols) # <<>> THEN ValuesSet(v1, KeySymbols, ValuesGet(a, KeySymbols)) ELSE v1
       IN queryLoop(Tail(attributes), v2)

\* Client.query
query(attributes) == queryLoop(attributes, EmptyValues)

\* A Client.date that converts to UTC before it formats.
dateUTC(t) == FormatDate([t EXCEPT !.off = 0])

\* Client.date
date(t) == FormatDate(t)

(***************************************************************************)
(* Request composition.                                                      *)
(***************************************************************************)
\* An *http.Request: nil, or its method, URL and headers.
NilRequest == [nil |-> TRUE, Method |-> "", URL |-> EmptyURL, Accept |-> "", UserAgent |-> ""]

\* http.NewRequest with the method GET, given the result of parsing the
\* URL text again; a host that ends in a colon loses it (removeEmptyPort).
NewRequestOf(parsed) ==
  IF parsed.err # "" THEN [err |-> URLError(parsed.err), req |-> NilRequest]
  ELSE [err |-> NilError,
        req |-> [nil |-> FALSE, Method |-> "GET",
                 URL |-> [parsed.url EXCEPT
                           !.Host = IF Len(@) > 0 /\ @[Len(@)] = ":"
                                      THEN SubSeq(@, 1, Len(@) - 1) ELSE @],
                 Accept |-> "", UserAgent |-> ""]]

NewRequest(urlText) == NewRequestOf(ParseURL(urlText))

\* The query Client.request sends: the access key, when configured, is set
\* over whatever the merged query holds under that key.
requestQuery(c, q) == IF c.accessKey # <<>> THEN ValuesSet(q, KeyAccessKey, c.accessKey) ELSE q

\* The text Client.request parses: the base path, the path and the query
\* (q is the query with the access key set).
rawurlOf(c, path, q) ==
  c.baseURL.Path \o path \o (IF Cardinality(DOMAIN q) > 0 THEN <<"?">> \o Encode(q) ELSE <<>>)

requestRawURL(c, path, q) == rawurlOf(c, path, requestQuery(c, q))

\* Client.request, lines 170-180: the request for the resolved URL, with
\* its two headers.
requestBuilt(c, built) ==
  IF built.err # NilError THEN built
  ELSE [err |-> NilError,
        req |-> [built.req EXCEPT !.Accept = "application/json", !.UserAgent = c.userAgent]]

\* Client.request going on to build the request whatever the parse of the
\* composed text gave.
requestParsedUnchecked(c, rel) ==
  requestBuilt(c, NewRequest(URLString(ResolveReference(c.baseURL, rel.url))))

\* Client.request, lines 165-168: the parse error of the composed text is
\* returned.
requestParsed(c, rel) ==
  IF rel.err # "" THEN [err |-> URLError(rel.err), req |-> NilRequest]
  ELSE requestBuilt(c, NewRequest(URLString(ResolveReference(c.baseURL, rel.url))))

\* Client.request
request(c, path, q) == requestParsed(c, ParseURL(requestRawURL(c, path, q)))

\* The Links Client.get leaves what the decoded body carried in place.
getLinksKeep(c, req, r) ==
  IF DOMAIN r.Links # {} THEN r.Links
  ELSE [k \in {"base", "self"} |-> IF k = "base" THEN URLString(c.baseURL) ELSE URLString(req.URL)]

\* The Links Client.get gives the Response it returns.
getLinks(c, req, r) ==
  [k \in {"base", "self"} |-> IF k = "base" THEN URLString(c.baseURL) ELSE URLString(req.URL)]

(***************************************************************************)
(* The transport.                                                            *)
(***************************************************************************)
SEK == <<"S", "E", "K">>
EUR == <<"E", "U", "R">>
USD == <<"U", "S", "D">>
GBP == <<"G", "B", "P">>
DKK == <<"D", "K", "K">>

\* Bodies a server may send.
BodyPlain == ObjectBody(JString(EUR), JString(<<"2", "0", "1", "2", "-", "0", "3", "-", "2", "8">>), JAbsent, JAbsent)
BodyRates ==
  ObjectBody(JString(SEK), JString(<<"2", "0", "1", "2", "-", "0", "3", "-", "2", "8">>),
             JObject([c \in {GBP, USD} |-> IF c = GBP THEN 88628 ELSE 114900]), JAbsent)
BodyLinks ==
  ObjectBody(JString(EUR), JString(<<"2", "0", "1", "2", "-", "0", "3", "-", "2", "8">>), JAbsent,
             JObject([k \in {"self", "next"} |-> IF k = "self" THEN <<"h", "t", "t", "p", ":", "/", "/", "x", "/">> ELSE <<"h", "t", "t", "p", ":", "/", "/", "x", "/", "2">>])) 
BodyDateFalse == ObjectBody(JAbsent, JBool, JAbsent, JAbsent)
BodyDateBad == ObjectBody(JString(EUR), JString(<<"n", "o", "t", "-", "a", "-", "d", "a", "t", "e">>), JAbsent, JAbsent)
BodyBaseNumber == ObjectBody(JNumber, JString(<<"2", "0", "1", "2", "-", "0", "3", "-", "2", "8">>), JAbsent, JAbsent)

Bodies ==
  {BodyPlain, BodyRates, BodyLinks, BodyDateFalse, BodyDateBad, BodyBaseNumber,
   TextBody, EmptyBody, NullBody, ArrayBody}

\* The responses a server may send: 200 with any of the bodies, and other
\* status codes with a body that is empty, no JSON text or a JSON object.
Responses ==
  { Resp(StatusOK, b) : b \in Bodies }
    \cup { Resp(s, b) : s \in {0, 201, 404, 422, 500}, b \in {EmptyBody, TextBody, BodyLinks} }

\* What c.httpClient.Do may return for a request: an error and no response,
\* or a response and no error.  A URL that is not an http or https URL with
\* a host is refused before anything is sent.
DoOutcomes(req) ==
  IF req.URL.Scheme \notin {<<"h", "t", "t", "p">>, <<"h", "t", "t", "p", "s">>}
    THEN {[err |-> TransportError("unsupported protocol scheme"), resp |-> NilResp]}
  ELSE IF req.URL.Host = <<>>
    THEN {[err |-> TransportError("http: no Host in request URL"), resp |-> NilResp]}
  ELSE { [err |-> TransportError(e), resp |-> NilResp] : e \in {"timeout", "connection refused"} }
       \cup { [err |-> NilError, resp |-> r] : r \in Responses }

(***************************************************************************)
(* The callers.  A call is Latest, At or (from inside the package, as the   *)
(* tests do) get with a path; its arguments are the time, built with        *)
(* time.Date, and the parameter sets, built with Base and Symbols or given  *)
(* as url.Values.                                                            *)
(***************************************************************************)
CallIds == {"c1", "c2"}

BaseArg(c) == [fn |-> "Base", c |-> c, cs |-> <<>>, v |-> EmptyValues]
SymbolsArg(cs) == [fn |-> "Symbols", c |-> <<>>, cs |-> cs, v |-> EmptyValues]
ValuesArg(v) == [fn |-> "Values", c |-> <<>>, cs |-> <<>>, v |-> v]

\* The parameter set an argument expression evaluates to.
EvalArg(a) ==
  IF a.fn = "Base" THEN Base(a.c)
  ELSE IF a.fn = "Symbols" THEN Symbols(a.cs)
  ELSE a.v

When(y, m, d, h, off) == [y |-> y, m |-> m, d |-> d, h |-> h, off |-> off]

NoWhen == When(1970, 1, 1, 0, 0)

Script(op, when, args, suffix) == [op |-> op, when |-> when, args |-> args, suffix |-> suffix]

\* A call that has not started.
NewCall(s) ==
  [pc |-> "args", op |-> s.op, when |-> s.when, args |-> s.args, suffix |-> s.suffix,
   attributes |-> <<>>, t |-> ZeroTime, path |-> <<>>, query |-> EmptyValues,
   req |-> NilRequest, sent |-> <<>>, resp |-> NilResp, body |-> "none",
   decodes |-> 0, drains |-> 0, closes |-> 0, failed |-> "", terr |-> NilError,
   b |-> JAbsent, held |-> ZeroTime, r |-> NilResponse, err |-> NilError]

\* A caller that makes no call.
OffCall == [NewCall(Script("none", NoWhen, <<>>, <<>>)) EXCEPT !.pc = "off"]

\* All sequences over S of length at most n.
SeqUpTo(S, n) == UNION { [1..k -> S] : k \in 0..n }

InitWith(optionLists, scripts) ==
  /\ options \in optionLists
  /\ client = ZeroClient
  /\ constructed = FALSE
  /\ calls \in { [i \in CallIds |-> IF i = "c1" THEN NewCall(s) ELSE OffCall] : s \in scripts }

(***************************************************************************)
(* Actions.                                                                  *)
(***************************************************************************)
\* c := NewClient(options...)
Construct ==
  /\ ~constructed
  /\ client' = NewClient(options)
  /\ constructed' = TRUE
  /\ UNCHANGED <<options, calls>>

\* The caller evaluates its next parameter-set argument.
BuildArg(i) ==
  /\ constructed
  /\ calls[i].pc = "args"
  /\ Len(calls[i].attributes) < Len(calls[i].args)
  /\ calls' = [calls EXCEPT ![i].attributes =
                 Append(@, EvalArg(calls[i].args[Len(calls[i].attributes) + 1]))]
  /\ UNCHANGED <<options, client, constructed>>

ArgsReady(i) ==
  /\ constructed
  /\ calls[i].pc = "args"
  /\ Len(calls[i].attributes) = Len(calls[i].args)

\* c.Latest(ctx, attributes...) up to its call of c.get
Latest(i) ==
  /\ ArgsReady(i)
  /\ calls[i].op = "Latest"
  /\ calls' = [calls EXCEPT ![i].pc = "request",
                            ![i].path = <<"/", "l", "a", "t", "e", "s", "t">>,
                            ![i].query = query(calls[i].attributes)]
  /\ UNCHANGED <<options, client, constructed>>

\* c.At(ctx, time.Date(...), attributes...) up to its call of c.get
At(i) ==
  /\ ArgsReady(i)
  /\ calls[i].op = "At"
  /\ \E t \in {Date(calls[i].when.y, calls[i].when.m, calls[i].when.d,
                      calls[i].when.h, calls[i].when.off)} :
       calls' = [calls EXCEPT ![i].pc = "request",
                               ![i].t = t,
                               ![i].path = <<"/">> \o date(t),
                               ![i].query = query(calls[i].attributes)]
  /\ UNCHANGED <<options, client, constructed>>

\* c.get(ctx, suffix, url.Values{}) called directly
Get(i) ==
  /\ ArgsReady(i)
  /\ calls[i].op = "get"
  /\ calls' = [calls EXCEPT ![i].pc = "request",
                            ![i].path = calls[i].suffix,
                            ![i].query = EmptyValues]
  /\ UNCHANGED <<options, client, constructed>>

\* A Client.request that composes the URL in the base URL of the Client
\* itself.
requestClientInPlace(c, path) == [c EXCEPT !.baseURL.Path = @ \o path]

\* The Client after Client.request: rawurl is a string of its own and
\* ResolveReference (line 170) returns a new URL; nothing is assigned to c.
requestClient(c, path) == c

\* A Client.query that hands back the first set of the caller.
querySharesFirst(attributes) == IF Len(attributes) > 0 THEN 1 ELSE 0

\* The set of the caller that the map Client.query returns shares storage
\* with, by its index: none, as line 139 makes a map of its own.
queryShares(attributes) == 0

\* Client.get, lines 120-123: build the request, return its error if any.
\* The access key is set (line 158) in the map Client.query returned.
Request(i) ==
  /\ calls[i].pc = "request"
  /\ \E b \in {request(client, calls[i].path, calls[i].query)},
        k \in {IF calls[i].op = "get" THEN 0 ELSE queryShares(calls[i].attributes)} :
       calls' = [calls EXCEPT ![i].pc = IF b.err = NilError THEN "do" ELSE "done",
                               ![i].query = requestQuery(client, calls[i].query),
                               ![i].attributes =
                                 [n \in 1..Len(@) |-> IF n = k THEN requestQuery(client, @[n]) ELSE @[n]],
                               ![i].req = b.req,
                               ![i].r = NilResponse,
                               ![i].err = b.err]
  /\ client' = requestClient(client, calls[i].path)
  /\ UNCHANGED <<options, constructed>>

\* A Client.do that returns a sentinel in place of the error of the
\* transport.
doErrorSentinel(e) == IF e = NilError THEN NilError ELSE ErrNilResponse

\* Client.do, lines 185-187, and Client.get, lines 126-128: the error of
\* the transport is returned as it is.
doError(e) == e

\* Client.do, lines 184-187: send the request, return the transport error.
Send(i) ==
  /\ calls[i].pc = "do"
  /\ \E o \in DoOutcomes(calls[i].req) :
       calls' = [calls EXCEPT ![i].pc = IF o.err = NilError THEN "classify" ELSE "done",
                              ![i].sent = Append(@, URLString(calls[i].req.URL)),
                              ![i].resp = o.resp,
                              ![i].body = IF o.err = NilError THEN "open" ELSE "none",
                              ![i].terr = o.err,
                              ![i].err = doError(o.err)]
  /\ UNCHANGED <<options, client, constructed>>

\* Client.do, lines 193-195: classify the status.
Classify(i) ==
  /\ calls[i].pc = "classify"
  /\ \E e \in {responseError(calls[i].resp)} :
       calls' = [calls EXCEPT ![i].pc = IF e = NilError THEN "decode" ELSE "close",
                              ![i].err = e]
  /\ UNCHANGED <<options, client, constructed>>

\* Client.do returning the Response it decoded into even when the decoder
\* failed.
doResultPartial(e, body) == ResponsePtr(DecodeValue(body))

\* Client.do, lines 199-203: the Response returned after decoding, nil when
\* the decoder failed.
doResult(e, body) == IF e = NilError THEN ResponsePtr(DecodeValue(body)) ELSE NilResponse

\* Client.do, lines 197-203: decode the body.
Decode(i) ==
  /\ calls[i].pc = "decode"
  /\ \E e \in {DecodeErr(calls[i].resp.Body)} :
       calls' = [calls EXCEPT ![i].pc = "close",
                              ![i].decodes = @ + 1,
                              ![i].r = doResult(e, calls[i].resp.Body),
                              ![i].err = e]
  /\ UNCHANGED <<options, client, constructed>>

\* A Client.do that returns the error of the drain or of the close when it
\* has no other.
deferredResultReported(err, failed) ==
  IF failed # "" /\ err = NilError THEN TransportError(failed) ELSE err

\* Client.do, lines 188-191: the error do returns after its deferred
\* function has run; the errors of io.CopyN and of Body.Close are assigned
\* to the blank identifier, and the results of do are set before it runs.
deferredResult(err, failed) == err

\* Client.do, line 189: the deferred function runs as do returns and first
\* drains the body, which may fail.
Drain(i) ==
  /\ calls[i].pc = "close"
  /\ \E failed \in {"", "drain"} :
       calls' = [calls EXCEPT ![i].pc = "closing",
                               ![i].body = "drained",
                               ![i].drains = @ + 1,
                               ![i].failed = failed]
  /\ UNCHANGED <<options, client, constructed>>

\* Client.do, line 190, then Client.get, lines 126-128: the deferred
\* function closes the body, which may fail; get returns the error of do if
\* any.
Close(i) ==
  /\ calls[i].pc = "closing"
  /\ \E failed \in {calls[i].failed} \cup {"close"} :
       calls' = [calls EXCEPT ![i].pc = IF deferredResult(calls[i].err, failed) = NilError
                                          THEN "links" ELSE "done",
                               ![i].body = "closed",
                               ![i].closes = @ + 1,
                               ![i].failed = failed,
                               ![i].err = deferredResult(@, failed)]
  /\ UNCHANGED <<options, client, constructed>>

\* d.UnmarshalJSON(b) called on a Date that holds calls[i].t.
UnmarshalJSON(i) ==
  /\ calls[i].pc = "args"
  /\ calls[i].op = "UnmarshalJSON"
  /\ calls' = [calls EXCEPT ![i].pc = "done",
                            ![i].t = DateUnmarshalJSON(@, calls[i].b),
                            ![i].err = IF DateUnmarshalError(calls[i].b) = "" THEN NilError
                                       ELSE DecodeError(DateUnmarshalError(calls[i].b))]
  /\ UNCHANGED <<options, client, constructed>>

\* Client.get, lines 130-135: set the Links and return.
Annotate(i) ==
  /\ calls[i].pc = "links"
  /\ calls' = [calls EXCEPT ![i].pc = "done",
                            ![i].r = ResponsePtr([calls[i].r.val EXCEPT
                                        !.Links = getLinks(client, calls[i].req, calls[i].r.val)])]
  /\ UNCHANGED <<options, client, constructed>>

(***************************************************************************)
(* Inputs and specifications.                                                *)
(***************************************************************************)
\* The longest option list, parameter-set list and currency list drawn.
MaxOpts == 2
MaxAttrs == 2
MaxSyms == 3

HostOnlyURL == <<"h", "t", "t", "p", ":", "/", "/", "h">>
PathURL == <<"h", "t", "t", "p", "s", ":", "/", "/", "h", ".", "i", "o", "/", "v", "1">>

\* Every option the constructor is tried with.
AllOptions ==
  {HTTPClient(HTTPClientValue("hc40", 40)), HTTPClient(HTTPClientValue("hc0", 0)),
   BaseURL(HostOnlyURL), BaseURL(PathURL), BaseURL(<<>>), BaseURL(<<"a", "p", "i">>),
   BaseURL(<<":">>), BaseURL(<<"%">>),
   AccessKey(<<"k">>), AccessKey(<<>>),
   UserAgent("Custom User-Agent"), UserAgent("")}

\* The configurations the calls are run against.
CallOptionLists ==
  {<<>>,
   <<BaseURL(HostOnlyURL)>>,
   <<BaseURL(PathURL), AccessKey(<<"k", "&", "y">>)>>,
   <<AccessKey(<<"k">>)>>,
   <<BaseURL(<<"%", "3", "A">>)>>,
   <<BaseURL(<<"a", "p", "i">>)>>,
   <<BaseURL(<<>>)>>}

\* url.Values a caller writes by hand.
ValuesForeign ==
  [k \in {KeyAccessKey, <<"f", "o", "o">>} |-> IF k = KeyAccessKey THEN <<<<"z">>>> ELSE <<<<"1">>>>]
ValuesTwoBases ==
  [k \in {KeyBase, KeySymbols} |-> IF k = KeyBase THEN <<USD, EUR>> ELSE <<<<>>>>]

RequestArgs ==
  {BaseArg(<<>>), BaseArg(SEK), SymbolsArg(<<>>), SymbolsArg(<<USD, GBP>>), SymbolsArg(<<SEK>>),
   ValuesArg(ValuesForeign), ValuesArg(ValuesTwoBases), ValuesArg([k \in {KeyBase} |-> <<<<>>, SEK>>])}

ParamArgs ==
  { BaseArg(c) : c \in {<<>>, SEK, EUR, USD} }
    \cup { SymbolsArg(cs) : cs \in SeqUpTo({SEK, DKK, <<"S", "E">>, <<>>}, MaxSyms) }

Whens ==
  { When(ymd[1], ymd[2], ymd[3], h, off) :
      ymd \in {<<2012, 3, 28>>, <<1999, 12, 31>>, <<2000, 1, 1>>, <<2012, 2, 29>>, <<2013, 3, 1>>},
      h \in {0, 12, 23},
      off \in {-28800, 0, 32400} }

TestWhen == When(2012, 3, 28, 0, 0)

\* The calls of the request-building specification: every list of
\* parameter sets with Latest and At, every time with At, every single
\* builder argument.
RequestScripts ==
  { Script(op, TestWhen, args, <<>>) : op \in {"Latest", "At"}, args \in SeqUpTo(RequestArgs, MaxAttrs) }
    \cup { Script("At", w, args, <<>>) : w \in Whens, args \in {<<>>, <<BaseArg(SEK)>>} }
    \cup { Script("Latest", NoWhen, <<a>>, <<>>) : a \in ParamArgs }

\* The calls of the whole pipeline.
PipelineScripts ==
  {Script("Latest", NoWhen, <<>>, <<>>),
   Script("Latest", NoWhen, <<BaseArg(SEK), SymbolsArg(<<USD, GBP>>)>>, <<>>),
   Script("At", TestWhen, <<>>, <<>>),
   Script("At", When(2000, 1, 1, 3, 32400), <<BaseArg(SEK), ValuesArg(ValuesForeign)>>, <<>>),
   Script("get", NoWhen, <<>>, <<":", "/">>),
   Script("get", NoWhen, <<>>, <<"/", "l", "a", "t", "e", "s", "t">>)}

\* The whole pipeline, from construction to the return of the call.
Init == InitWith(CallOptionLists, PipelineScripts)

Next ==
  \/ Construct
  \/ \E i \in CallIds : BuildArg(i)
  \/ \E i \in CallIds : Latest(i)
  \/ \E i \in CallIds : At(i)
  \/ \E i \in CallIds : Get(i)
  \/ \E i \in CallIds : Request(i)
  \/ \E i \in CallIds : Send(i)
  \/ \E i \in CallIds : Classify(i)
  \/ \E i \in CallIds : Decode(i)
  \/ \E i \in CallIds : Drain(i)
  \/ \E i \in CallIds : Close(i)
  \/ \E i \in CallIds : Annotate(i)

Spec == Init /\ [][Next]_vars

\* Request building alone, over wide sets of arguments.
InitRequest == InitWith(CallOptionLists, RequestScripts)

NextRequest ==
  \/ Construct
  \/ \E i \in CallIds : BuildArg(i)
  \/ \E i \in CallIds : Latest(i)
  \/ \E i \in CallIds : At(i)
  \/ \E i \in CallIds : Request(i)

SpecRequest == InitRequest /\ [][NextRequest]_vars

\* Construction alone, over every option list.
InitNewClient == InitWith(SeqUpTo(AllOptions, MaxOpts), {Script("Latest", NoWhen, <<>>, <<>>)})

NextNewClient == Construct

SpecNewClient == InitNewClient /\ [][NextNewClient]_vars

\* Calls of several callers on one Client, their steps interleaved.
SharedScripts ==
  {Script("Latest", NoWhen, <<BaseArg(SEK)>>, <<>>),
   Script("At", TestWhen, <<ValuesArg(ValuesForeign)>>, <<>>)}

InitShared ==
  /\ options \in {<<BaseURL(HostOnlyURL), AccessKey(<<"k">>)>>}
  /\ client = ZeroClient
  /\ constructed = FALSE
  /\ calls \in { [i \in CallIds |-> IF i = "c1" THEN NewCall(s1) ELSE NewCall(s2)] :
                    s1 \in SharedScripts,
                    s2 \in {Script("At", TestWhen, <<ValuesArg(ValuesForeign)>>, <<>>)} }

NextShared ==
  \/ Construct
  \/ \E i \in CallIds : BuildArg(i)
  \/ \E i \in CallIds : Latest(i)
  \/ \E i \in CallIds : At(i)
  \/ \E i \in CallIds : Request(i)
  \/ \E i \in CallIds : Send(i)
  \/ \E i \in CallIds : Classify(i)
  \/ \E i \in CallIds : Decode(i)
  \/ \E i \in CallIds : Drain(i)
  \/ \E i \in CallIds : Close(i)
  \/ \E i \in CallIds : Annotate(i)

SpecShared == InitShared /\ [][NextShared]_vars

\* The JSON values given to Date.UnmarshalJSON: strings that name a day,
\* strings that name none, and values that are no string.
DateStrings ==
  { Digits(y, 4) \o <<"-">> \o Digits(m, 2) \o <<"-">> \o Digits(d, 2) :
      y \in {0, 1900, 2012, 2016}, m \in {0, 2, 4, 12, 13}, d \in {0, 1, 12, 28, 29, 30, 31, 32} }
    \cup {<<>>, <<"2", "0", "1", "6", "-", "2", "-", "1", "2">>, <<"1", "6", "-", "0", "2", "-", "1", "2">>, <<"2", "0", "1", "6", "/", "0", "2", "/", "1", "2">>, <<"2", "0", "1", "6", "-", "0", "2", "-", "1", "2", "T", "0", "0", ":", "0", "0", ":", "0", "0", "Z">>,
          <<" ", "2", "0", "1", "6", "-", "0", "2", "-", "1", "2">>, <<"2", "0", "1", "6", "-", "0", "2", "-", "1", "x">>, <<"1", "2", "-", "0", "2", "-", "2", "0", "1", "6">>, <<"N", "O", "T", " ", "A", " ", "D", "A", "T", "E">>, <<"+", "0", "1", "6", "-", "0", "2", "-", "1", "2">>}

DateValues ==
  { JString(s) : s \in DateStrings }
    \cup {JBool, JNumber, JObject(EmptyValues), [JBool EXCEPT !.t = "null"]}

\* A Date, fresh or holding a day already, decodes one JSON value.
InitDate ==
  /\ options = <<>>
  /\ client = ZeroClient
  /\ constructed = FALSE
  /\ calls \in { [i \in CallIds |->
                     IF i = "c1"
                       THEN [NewCall(Script("UnmarshalJSON", NoWhen, <<>>, <<>>)) EXCEPT
                               !.t = d, !.held = d, !.b = j]
                       ELSE OffCall] :
                    d \in {ZeroTime, Date(2012, 3, 28, 0, 0)}, j \in DateValues }

NextDate == \E i \in CallIds : UnmarshalJSON(i)

SpecDate == InitDate /\ [][NextDate]_vars

(***************************************************************************)
(* Properties.                                                               *)
(***************************************************************************)
\* The calls that have been given a response by the transport.
Received(i) ==
  calls[i].pc \in {"classify", "decode", "close", "closing", "links", "done"} /\ ~calls[i].resp.nil

\* The calls that have returned.
Returned(i) == calls[i].pc = "done"

\* The sentinel the classification table gives a status other than 200.
SentinelOf(status) ==
  CASE status = 404 -> ErrNotFound
    [] status = 422 -> ErrUnprocessableEntity
    [] OTHER -> ErrUnexpectedStatus

\* C1: the classification depends on the status code alone and comes before
\* any decoding: a nil response gives ErrNilResponse, 200 gives no error, and
\* a call that received any other status returns exactly the sentinel of
\* that status, with no Response, and never decodes the body.
C1_Classification ==
  /\ responseError(NilResp) = ErrNilResponse
  /\ \A i \in CallIds :
       /\ calls[i].pc \in {"classify", "decode"} => calls[i].decodes = 0
       /\ (Received(i) /\ calls[i].pc # "classify") =>
            IF calls[i].resp.StatusCode = 200
              THEN calls[i].pc = "decode" => calls[i].err = NilError
              ELSE /\ calls[i].err = SentinelOf(calls[i].resp.StatusCode)
                   /\ calls[i].r = NilResponse
                   /\ calls[i].decodes = 0
                   /\ calls[i].pc \in {"close", "closing", "done"}

\* C1 witness: a call that received 404 with a body that is a decodable
\* JSON object has returned ErrNotFound without decoding.
C1_Witness ==
  \E i \in CallIds :
    /\ Returned(i)
    /\ calls[i].resp = Resp(404, BodyLinks)
    /\ calls[i].err = ErrNotFound
    /\ calls[i].decodes = 0

\* C2: a Response returned without error has exactly the links base and
\* self: base is the text of the configured base URL, self the text of the
\* URL the transport was given, query included; links of the body are gone.
C2_Links ==
  \A i \in CallIds :
    (Returned(i) /\ calls[i].err = NilError) =>
      /\ ~calls[i].r.nil
      /\ DOMAIN calls[i].r.val.Links = {"base", "self"}
      /\ calls[i].r.val.Links["base"] = URLString(client.baseURL)
      /\ Len(calls[i].sent) = 1
      /\ calls[i].r.val.Links["self"] = calls[i].sent[1]
      /\ ParseQuery(CutAfter(calls[i].r.val.Links["self"], "?")) = calls[i].query

\* C2 witness: a call with a query has returned a Response decoded from a
\* body that carried links of its own.
C2_Witness ==
  \E i \in CallIds :
    /\ Returned(i)
    /\ calls[i].err = NilError
    /\ calls[i].resp.Body = BodyLinks
    /\ calls[i].query # EmptyValues
    /\ calls[i].r.val.Links["self"] # BodyLinks.links.m["self"]

\* C3: a returned call has either a Response and a nil error or no Response
\* and an error; a 200 whose body is no JSON text gives no Response and the
\* error of the decoder, which is no sentinel.
C3_OneResult ==
  \A i \in CallIds :
    Returned(i) =>
      /\ calls[i].r.nil <=> calls[i].err # NilError
      /\ (~calls[i].resp.nil /\ calls[i].resp.StatusCode = 200 /\ calls[i].resp.Body = TextBody) =>
           /\ calls[i].r.nil
           /\ calls[i].err.kind = "decode"
           /\ calls[i].err \notin Sentinels

\* C3 witness: a call that received 200 with a body that is no JSON text
\* has returned.
C3_Witness ==
  \E i \in CallIds :
    /\ Returned(i)
    /\ calls[i].resp = Resp(200, TextBody)
    /\ calls[i].r.nil
    /\ calls[i].err.kind = "decode"

\* The last of the sets given that has a value under the key, 0 for none.
LastWith(attributes, k) ==
  IF \E n \in 1..Len(attributes) : ValuesGet(attributes[n], k) # <<>>
    THEN CHOOSE n \in 1..Len(attributes) :
           /\ ValuesGet(attributes[n], k) # <<>>
           /\ \A m \in (n + 1)..Len(attributes) : ValuesGet(attributes[m], k) = <<>>
    ELSE 0

\* What the claim says of one of the keys base and symbols in the query q
\* of the request.
MergedKey(q, attributes, k) ==
  IF LastWith(attributes, k) = 0 THEN k \notin DOMAIN q
  ELSE k \in DOMAIN q /\ q[k] = <<ValuesGet(attributes[LastWith(attributes, k)], k)>>

\* C4: the query of the request built for Latest or At, read back from the
\* URL, has no key but base, symbols and access_key; base and symbols are
\* the values of the last set given that has one (a set's value under a key
\* being its first, as Values.Get reads it); access_key is there exactly
\* when the client has an access key, and is that key.
C4_Query ==
  \A i \in CallIds :
    (calls[i].pc = "do" /\ calls[i].op \in {"Latest", "At"}) =>
      /\ DOMAIN ParseQuery(calls[i].req.URL.RawQuery) \subseteq {KeyBase, KeySymbols, KeyAccessKey}
      /\ MergedKey(ParseQuery(calls[i].req.URL.RawQuery), calls[i].attributes, KeyBase)
      /\ MergedKey(ParseQuery(calls[i].req.URL.RawQuery), calls[i].attributes, KeySymbols)
      /\ IF client.accessKey = <<>>
           THEN KeyAccessKey \notin DOMAIN ParseQuery(calls[i].req.URL.RawQuery)
           ELSE /\ KeyAccessKey \in DOMAIN ParseQuery(calls[i].req.URL.RawQuery)
                /\ ParseQuery(calls[i].req.URL.RawQuery)[KeyAccessKey] = <<client.accessKey>>

\* C4 witness: a request built from two sets that both name a base, the
\* second also naming a foreign key, for a client with an access key.
C4_Witness ==
  \E i \in CallIds :
    /\ calls[i].pc = "do"
    /\ calls[i].args = <<BaseArg(SEK), ValuesArg(ValuesTwoBases)>>
    /\ client.accessKey = <<"k", "&", "y">>
    /\ ParseQuery(calls[i].req.URL.RawQuery)[KeyBase] = <<USD>>

\* The default client of the claim.
C5_Claimed(c) ==
  /\ c.httpClient.Timeout = 20
  /\ URLString(c.baseURL) = <<"h", "t", "t", "p", "s", ":", "/", "/", "a", "p", "i", ".", "f", "i", "x", "e", "r", ".", "i", "o">>
  /\ c.accessKey = <<>>
  /\ c.userAgent = "fixer/client.go (https://github.com/peterhellberg/fixer)"

\* C5: a client built with no options has a timeout of 20 seconds, the base
\* URL https://api.fixer.io, no access key and the fixed user agent.
C5_Default == (constructed /\ options = <<>>) => C5_Claimed(client)

\* The options of the list that set a field: every option of that name,
\* but a BaseURL only when its text parses.
Setters(opts, name) ==
  { n \in 1..Len(opts) :
      opts[n].opt = name /\ (name = "BaseURL" => ParseURL(opts[n].str).err = "") }

LastSetter(opts, name) == CHOOSE n \in Setters(opts, name) : \A m \in Setters(opts, name) : m <= n

\* The list with its n-th option applied twice in a row, and without it.
Doubled(opts, n) == SubSeq(opts, 1, n) \o <<opts[n]>> \o SubSeq(opts, n + 1, Len(opts))
Without(opts, n) == SubSeq(opts, 1, n - 1) \o SubSeq(opts, n + 1, Len(opts))

\* C6: every field of the client holds what the last option that set it
\* gave, the default if none did; an option applied twice in a row gives
\* what it gives applied once; a BaseURL whose text does not parse changes
\* nothing.
C6_Options ==
  constructed =>
    /\ client.httpClient =
         IF Setters(options, "HTTPClient") = {} THEN DefaultClientValue.httpClient
         ELSE options[LastSetter(options, "HTTPClient")].hc
    /\ client.baseURL =
         IF Setters(options, "BaseURL") = {} THEN DefaultClientValue.baseURL
         ELSE ParseURL(options[LastSetter(options, "BaseURL")].str).url
    /\ client.accessKey =
         IF Setters(options, "AccessKey") = {} THEN DefaultClientValue.accessKey
         ELSE options[LastSetter(options, "AccessKey")].str
    /\ client.userAgent =
         IF Setters(options, "UserAgent") = {} THEN DefaultClientValue.userAgent
         ELSE options[LastSetter(options, "UserAgent")].ua
    /\ \A n \in 1..Len(options) : NewClient(Doubled(options, n)) = client
    /\ \A n \in 1..Len(options) :
         (options[n].opt = "BaseURL" /\ ParseURL(options[n].str).err # "") =>
           NewClient(Without(options, n)) = client

\* C6 witness: a client built with a BaseURL that parses followed by one
\* that does not has the base URL of the first.
C6_Witness ==
  /\ constructed
  /\ options = <<BaseURL(PathURL), BaseURL(<<":">>)>>
  /\ URLString(client.baseURL) = PathURL

\* The text YYYY-MM-DD of a civil date.
DateText(y, m, d) == Digits(y, 4) \o <<"-">> \o Digits(m, 2) \o <<"-">> \o Digits(d, 2)

\* The calls of At that have formatted their path.
AtStarted(i) == calls[i].op = "At" /\ calls[i].pc \in {"request", "do", "done"}

\* C7 as claimed: the path of an At call is a slash and the UTC calendar
\* date of the instant.
C7_UTCDate ==
  \A i \in CallIds :
    AtStarted(i) =>
      calls[i].path = <<"/">> \o DateText(CivilFromDays(calls[i].t.day).y,
                                          CivilFromDays(calls[i].t.day).m,
                                          CivilFromDays(calls[i].t.day).d)

\* C7 as amended: the path of an At call is a slash and the calendar date
\* the instant has in the zone the time value carries, which is the date
\* given to time.Date for that zone; the time of day is dropped.
C7_ZoneDate ==
  \A i \in CallIds :
    AtStarted(i) =>
      calls[i].path = <<"/">> \o DateText(calls[i].when.y, calls[i].when.m, calls[i].when.d)

\* C7 witness: an At call with a time in a zone nine hours east of UTC,
\* early on a day there that has not begun in UTC.
C7_Witness ==
  \E i \in CallIds :
    /\ AtStarted(i)
    /\ calls[i].when = When(2000, 1, 1, 0, 32400)
    /\ CivilFromDays(calls[i].t.day) = [y |-> 1999, m |-> 12, d |-> 31]
    /\ calls[i].path = <<"/", "2", "0", "0", "0", "-", "0", "1", "-", "0", "1">>

\* How often a code occurs in a list of codes.
Occurrences(list, c) == Cardinality({ n \in 1..Len(list) : list[n] = c })

\* C8: Symbols gives no key when the codes serialize to the empty string
\* (no code, or the empty code alone); otherwise the one key symbols with
\* one value, the codes joined by commas in ascending byte order, every code
\* as often as it was given.
C8_Symbols ==
  \A i \in CallIds :
    \A n \in 1..Len(calls[i].attributes) :
      calls[i].args[n].fn = "Symbols" =>
        IF calls[i].args[n].cs = <<>> \/ calls[i].args[n].cs = << <<>> >>
          THEN DOMAIN calls[i].attributes[n] = {}
          ELSE /\ DOMAIN calls[i].attributes[n] = {KeySymbols}
               /\ Len(calls[i].attributes[n][KeySymbols]) = 1
               /\ \E list \in {Split(calls[i].attributes[n][KeySymbols][1], ",")} :
                    /\ Len(list) = Len(calls[i].args[n].cs)
                    /\ \A a \in 1..(Len(list) - 1) : StrLeq(list[a], list[a + 1])
                    /\ \A a \in 1..Len(list) :
                         Occurrences(list, list[a]) = Occurrences(calls[i].args[n].cs, list[a])

\* C8 witness: Symbols of codes given out of order, one of them twice.
C8_Witness ==
  \E i \in CallIds :
    /\ Len(calls[i].attributes) = 1
    /\ calls[i].args[1] = SymbolsArg(<<SEK, DKK, SEK>>)
    /\ calls[i].attributes[1][KeySymbols] = <<<<"D", "K", "K", ",", "S", "E", "K", ",", "S", "E", "K">>>>

\* C9: Base gives no key for the empty currency, and for any other the one
\* key base with that currency as its one value.
C9_Base ==
  \A i \in CallIds :
    \A n \in 1..Len(calls[i].attributes) :
      calls[i].args[n].fn = "Base" =>
        IF calls[i].args[n].c = <<>>
          THEN DOMAIN calls[i].attributes[n] = {}
          ELSE /\ DOMAIN calls[i].attributes[n] = {KeyBase}
               /\ calls[i].attributes[n][KeyBase] = <<calls[i].args[n].c>>

\* C9 witness: Base of the empty currency and Base of SEK, both evaluated.
C9_Witness ==
  \E i \in CallIds :
    /\ Len(calls[i].attributes) = 2
    /\ calls[i].args = <<BaseArg(<<>>), BaseArg(SEK)>>
    /\ calls[i].attributes[2][KeyBase] = <<SEK>>

\* The calls whose request has been composed.
Composed(i) == calls[i].pc \in {"do", "classify", "decode", "close", "closing", "links", "done"}

\* C10 as claimed: when the text composed for a request (base path, path,
\* query) does not parse as a URL reference, the call has returned the parse
\* error, with no Response and nothing sent; and the path :/ is such a case
\* for every configuration of the client.
C10_EveryConfiguration ==
  \A i \in CallIds :
    Composed(i) =>
      /\ ParseURL(requestRawURL(client, calls[i].path, calls[i].query)).err # "" =>
           /\ Returned(i)
           /\ calls[i].err = URLError(ParseURL(requestRawURL(client, calls[i].path, calls[i].query)).err)
           /\ calls[i].r.nil
           /\ calls[i].sent = <<>>
      /\ calls[i].path = <<":", "/">> =>
           /\ Returned(i)
           /\ calls[i].err.kind = "url.Error"
           /\ calls[i].r.nil
           /\ calls[i].sent = <<>>

\* C10 as amended: when the text composed for a request does not parse as
\* a URL reference, the call has returned the parse error, with no Response,
\* no request and nothing sent, for every configuration of the client; the
\* path :/ is such a case when the base URL has no path, and is not when the
\* base path is /api, where the request is built and sent.
C10_BuildError ==
  \A i \in CallIds :
    Composed(i) =>
      /\ ParseURL(requestRawURL(client, calls[i].path, calls[i].query)).err # "" =>
           /\ Returned(i)
           /\ calls[i].err = URLError(ParseURL(requestRawURL(client, calls[i].path, calls[i].query)).err)
           /\ calls[i].r.nil
           /\ calls[i].req.nil
           /\ calls[i].sent = <<>>
      /\ (calls[i].path = <<":", "/">> /\ client.baseURL.Path = <<>>) =>
           /\ Returned(i)
           /\ calls[i].err = URLError("missing protocol scheme")
           /\ calls[i].sent = <<>>
      /\ (calls[i].path = <<":", "/">> /\ client.baseURL.Path = <<"/", "a", "p", "i">>) =>
           /\ ~calls[i].req.nil
           /\ calls[i].req.URL.Path = <<"/", "a", "p", "i", ":", "/">>
           /\ Returned(i) => Len(calls[i].sent) = 1

\* C10 witness: get with the path :/ on a client whose base URL has no path
\* has returned the parse error.
C10_Witness ==
  \E i \in CallIds :
    /\ Returned(i)
    /\ calls[i].op = "get"
    /\ calls[i].path = <<":", "/">>
    /\ client.baseURL.Path = <<>>
    /\ calls[i].err = URLError("missing protocol scheme")
    /\ calls[i].r.nil
    /\ calls[i].sent = <<>>

\* The number the digits of s at the places from a to b denote, read digit
\* by digit.
Number(s, a, b) ==
  LET v[k \in (a - 1)..b] == IF k = a - 1 THEN 0 ELSE 10 * v[k - 1] + (Ord(s[k]) - 48)
  IN v[b]

\* A text in the form YYYY-MM-DD that names a day of the calendar: a day
\* is one that the count of days since the epoch gives back.
NamesDay(s) ==
  /\ Len(s) = 10
  /\ \A k \in 1..10 : IF k \in {5, 8} THEN s[k] = "-" ELSE s[k] \in {Chr(48 + n) : n \in 0..9}
  /\ Number(s, 6, 7) \in 1..12
  /\ Number(s, 9, 10) \in 1..31
  /\ CivilFromDays(DaysFromCivil(Number(s, 1, 4), Number(s, 6, 7), Number(s, 9, 10)))
       = [y |-> Number(s, 1, 4), m |-> Number(s, 6, 7), d |-> Number(s, 9, 10)]

\* C11: Date.UnmarshalJSON reports no error exactly for a JSON string in the
\* form YYYY-MM-DD that names a day, and the Date is then that day at
\* 00:00:00 UTC; for every other JSON value it reports an error and the Date
\* holds what it held before, the zero time for a fresh Date.
C11_DateDecoding ==
  \A i \in CallIds :
    (Returned(i) /\ calls[i].op = "UnmarshalJSON") =>
      IF calls[i].b.t = "string" /\ NamesDay(calls[i].b.s)
        THEN /\ calls[i].err = NilError
             /\ calls[i].t.sec = 0
             /\ calls[i].t.off = 0
             /\ CivilFromDays(calls[i].t.day) =
                  [y |-> Number(calls[i].b.s, 1, 4), m |-> Number(calls[i].b.s, 6, 7),
                   d |-> Number(calls[i].b.s, 9, 10)]
        ELSE /\ calls[i].err # NilError
             /\ calls[i].err \notin Sentinels
             /\ calls[i].t = calls[i].held

\* C11 witness: a Date that held 2012-03-28 was given a text in the form
\* that names no day, reported an error and holds 2012-03-28 still.
C11_Witness ==
  \E i \in CallIds :
    /\ Returned(i)
    /\ calls[i].op = "UnmarshalJSON"
    /\ calls[i].b = JString(<<"2", "0", "1", "6", "-", "0", "2", "-", "3", "0">>)
    /\ calls[i].err # NilError
    /\ calls[i].t = Date(2012, 3, 28, 0, 0)

\* The path a call of Latest or At asks for, from its own arguments.
OwnPath(i) ==
  IF calls[i].op = "Latest" THEN <<"/", "l", "a", "t", "e", "s", "t">>
  ELSE <<"/">> \o date(Date(calls[i].when.y, calls[i].when.m, calls[i].when.d,
                            calls[i].when.h, calls[i].when.off))

\* The parameter sets a call was given, from its own arguments.
OwnAttributes(i) == [n \in 1..Len(calls[i].args) |-> EvalArg(calls[i].args[n])]

\* C12: with the steps of two calls on one Client interleaved in every way,
\* the Client is at every step what NewClient made it, the parameter sets
\* the callers passed hold what they held when they were passed, and the
\* request and the Links of a call are those its own arguments and the
\* configuration give, whatever the other call has done.
C12_NoSharedWrites ==
  constructed =>
    \E c \in {NewClient(options)} :
      /\ client = c
      /\ \A i \in CallIds :
           /\ \A n \in 1..Len(calls[i].attributes) :
                calls[i].attributes[n] = EvalArg(calls[i].args[n])
           /\ Composed(i) =>
                \E b \in {request(c, OwnPath(i), query(OwnAttributes(i)))} :
                  /\ calls[i].req = b.req
                  /\ (Returned(i) /\ calls[i].err = NilError) =>
                       /\ calls[i].r.val.Links["base"] = URLString(c.baseURL)
                       /\ calls[i].r.val.Links["self"] = URLString(b.req.URL)

\* C12 witness: a call of Latest has returned its Response while a call of
\* At on the same Client, with a parameter set naming an access key of its
\* own, has its request sent and its response not yet classified.
C12_Witness ==
  /\ calls["c1"].op = "Latest"
  /\ Returned("c1")
  /\ calls["c1"].err = NilError
  /\ calls["c1"].r.val.Links["self"] = <<"h", "t", "t", "p", ":", "/", "/", "h", "/", "l", "a", "t", "e", "s", "t", "?", "a", "c", "c", "e", "s", "s", "_", "k", "e", "y", "=", "k", "&", "b", "a", "s", "e", "=", "S", "E", "K">>
  /\ calls["c2"].op = "At"
  /\ calls["c2"].pc = "classify"
  /\ calls["c2"].sent = <<<<"h", "t", "t", "p", ":", "/", "/", "h", "/", "2", "0", "1", "2", "-", "0", "3", "-", "2", "8", "?", "a", "c", "c", "e", "s", "s", "_", "k", "e", "y", "=", "k">>>>
  /\ calls["c2"].attributes = <<ValuesForeign>>

\* C13: a call whose request was built gives it to the transport once and
\* never again, whatever comes back; an error of the transport is the error
\* the call returns, with no Response; and the Response of a call is decoded
\* from the response to its own request, also when another call on the same
\* Client asked for the same URL.
C13_OneRequest ==
  \A i \in CallIds :
    /\ Len(calls[i].sent) <= 1
    /\ (Composed(i) /\ calls[i].pc # "do") =>
         IF calls[i].req.nil THEN calls[i].sent = <<>>
         ELSE calls[i].sent = <<URLString(calls[i].req.URL)>>
    /\ (Returned(i) /\ calls[i].terr # NilError) =>
         /\ calls[i].err = calls[i].terr
         /\ calls[i].r.nil
         /\ calls[i].resp.nil
         /\ calls[i].decodes = 0
    /\ (Returned(i) /\ calls[i].err = NilError) =>
         /\ Len(calls[i].sent) = 1
         /\ calls[i].decodes = 1
         /\ calls[i].resp.StatusCode = 200
         /\ [calls[i].r.val EXCEPT !.Links = NoLinks]
              = [DecodeValue(calls[i].resp.Body) EXCEPT !.Links = NoLinks]

\* C13 witness: two calls asked for the same URL on one Client; the first
\* has returned a Response with rates, the second the timeout of the
\* transport, and each was sent once.
C13_Witness ==
  /\ calls["c1"].args = calls["c2"].args
  /\ calls["c1"].op = calls["c2"].op
  /\ Returned("c1")
  /\ Returned("c2")
  /\ calls["c1"].err = NilError
  /\ calls["c1"].resp.Body = BodyRates
  /\ calls["c2"].terr = TransportError("timeout")
  /\ calls["c2"].err = TransportError("timeout")
  /\ Len(calls["c1"].sent) = 1
  /\ calls["c1"].sent = calls["c2"].sent

\* The calls whose request has been given to the transport.
Issued(i) == calls[i].sent # <<>>

\* C14 as claimed: when a request is issued the base URL of the Client has
\* a scheme, a host and a path, none of them empty.
C14_SchemeHostPath ==
  \A i \in CallIds :
    Issued(i) =>
      /\ client.baseURL.Scheme # <<>>
      /\ client.baseURL.Host # <<>>
      /\ client.baseURL.Path # <<>>

\* C14 as amended: when a request is issued the base URL of the Client is
\* the default, which has a scheme, a host and a path, or else whatever
\* url.Parse made of the text of the last BaseURL that parses, with the
\* parts that text lacks left empty: no path for a URL of a host alone,
\* neither scheme nor host for a relative reference, nothing at all for the
\* empty text.
C14_BaseURLAsGiven ==
  \A i \in CallIds :
    Issued(i) =>
      IF Setters(options, "BaseURL") = {}
        THEN /\ client.baseURL = DefaultClientValue.baseURL
             /\ client.baseURL.Scheme = <<"h", "t", "t", "p">>
             /\ client.baseURL.Host = <<"d", "a", "t", "a", ".", "f", "i", "x", "e", "r", ".", "i", "o">>
             /\ client.baseURL.Path = <<"/", "a", "p", "i">>
        ELSE \E text \in {options[LastSetter(options, "BaseURL")].str} :
               /\ client.baseURL = ParseURL(text).url
               /\ text = HostOnlyURL =>
                    (client.baseURL.Host = <<"h">> /\ client.baseURL.Path = <<>>)
               /\ text = <<"a", "p", "i">> =>
                    (client.baseURL.Scheme = <<>> /\ client.baseURL.Host = <<>>
                       /\ client.baseURL.Path = <<"a", "p", "i">>)
               /\ text = <<>> => client.baseURL = EmptyURL

\* C14 witness: a call of Latest on a Client made with BaseURL of a URL
\* that names a host alone has returned its Response, and the base URL has
\* no path.
C14_Witness ==
  \E i \in CallIds :
    /\ options = <<BaseURL(HostOnlyURL)>>
    /\ calls[i].op = "Latest"
    /\ Returned(i)
    /\ calls[i].err = NilError
    /\ calls[i].sent = <<HostOnlyURL \o <<"/", "l", "a", "t", "e", "s", "t">>>>
    /\ client.baseURL.Scheme = <<"h", "t", "t", "p">>
    /\ client.baseURL.Path = <<>>

\* What Client.do returns for a response, from the response alone.
ResultFor(resp) ==
  IF resp.StatusCode # 200 THEN SentinelOf(resp.StatusCode) ELSE DecodeErr(resp.Body)

\* C15: the body of a response the transport returned is open while the
\* status is classified and the body decoded, is then drained once and
\* after that closed once, and is closed when the call returns, whether the
\* call returns a sentinel, an error of the decoder or a Response; what the
\* call returns is what the response alone gives, whether or not the drain
\* or the close failed. With no response there is nothing drained or closed.
C15_DrainThenClose ==
  \A i \in CallIds :
    IF calls[i].resp.nil
      THEN calls[i].drains = 0 /\ calls[i].closes = 0 /\ calls[i].body = "none"
      ELSE /\ calls[i].pc \in {"classify", "decode", "close"} =>
                calls[i].body = "open" /\ calls[i].drains = 0 /\ calls[i].closes = 0
           /\ calls[i].pc = "close" =>
                calls[i].err = ResultFor(calls[i].resp)
           /\ calls[i].pc = "closing" =>
                calls[i].body = "drained" /\ calls[i].drains = 1 /\ calls[i].closes = 0
           /\ calls[i].pc \in {"links", "done"} =>
                /\ calls[i].body = "closed"
                /\ calls[i].drains = 1
                /\ calls[i].closes = 1
                /\ calls[i].err = ResultFor(calls[i].resp)
                /\ calls[i].r.nil <=> calls[i].err # NilError

\* C15 witness: a call has returned its Response though the close of the
\* body failed.
C15_Witness ==
  \E i \in CallIds :
    /\ Returned(i)
    /\ calls[i].resp = Resp(200, BodyRates)
    /\ calls[i].failed = "close"
    /\ calls[i].body = "closed"
    /\ calls[i].err = NilError
    /\ ~calls[i].r.nil

====
